---------------------------- MODULE Spec2Model ----------------------------
(***************************************************************************)
(* A state-machine model of embee's generation engine                      *)
(* (src/src/engine.cpp, class Engine::Impl) together with the dummy        *)
(* tokenizer of src/src/model.cpp.                                         *)
(*                                                                         *)
(* Numbers.  Scores (logits) are floats in the code.  Here a score is an   *)
(* integer count of units of ln(2)/ScoreDen, so that the divisions the     *)
(* code makes (by the temperature, by the repetition penalty) are exact,   *)
(* as divisions by a power of two are in binary floating point, and so     *)
(* that std::exp of a whole multiple of ScoreDen units is a power of two.  *)
(* std::exp is modelled by ExpW: exact on those multiples, interpolated    *)
(* linearly between them, strictly increasing until it underflows to 0.    *)
(* Probabilities are kept as the integer weights ExpW over their common    *)
(* denominator sum_exp, and comparisons of probabilities with top_p and    *)
(* with the random draw are made by cross-multiplication.  The rounding of *)
(* single float operations is not modelled.                                *)
(***************************************************************************)
EXTENDS Integers, Sequences, FiniteSets, TLC

VARIABLES
    \* ---- Engine::Impl fields (engine.cpp:119-129)
    kv_cache_initialized_,  \* bool kv_cache_initialized_
    key_cache_,             \* per layer: the size of key_cache_[i]
    value_cache_,           \* per layer: the size of value_cache_[i]
    last_logits_,           \* std::vector<float> last_logits_
    \* ---- the call in progress: arguments and locals of generate_with_callback
    pc,                     \* position of the call (see Terminal)
    mode,                   \* "generate" (Impl::generate's lambda) or "stream"
    prompt,                 \* the prompt: a sequence of bytes
    config,                 \* the GenerationConfig of the call
    tokens,                 \* TokenVector tokens
    generated_count,        \* size_t generated_count
    next_token,             \* TokenId next_token
    logits,                 \* the local copy `logits` handed to sample_token
    token_text,             \* std::string token_text
    result,                 \* std::string result of Impl::generate
    \* ---- what the call did, as its collaborators saw it
    cutoff_idx,             \* cutoff_idx of the last sample_token call (-1: none)
    sample_count,           \* calls of sample_token in this call
    prime_count,            \* calls of process_tokens in this call
    single_count,           \* calls of process_single_token in this call
    position,               \* position argument of the last process_single_token
    cb_count,               \* callback invocations in this call
    cb_ret,                 \* return value of the last callback invocation
    delivered,              \* the (token, text) pairs the callback received
    primed,                 \* the TokenVector handed to process_tokens by the call
    error,                  \* the exception the last call on the engine ended with
    last_op,                \* what the last step did ("call+init": a call's
                            \* prologue that ran initialize_kv_cache)
    \* ---- two calls side by side (SpecPair)
    observe,                \* whether forward-pass results are being recorded
    fp_trace,               \* the score vectors the forward passes of the
                            \* generation call returned
    prev,                   \* the record of the previous call, or NoCall
    \* ---- Model::detect_format
    detect                  \* the last detect_format call: its arguments and result

vars == <<kv_cache_initialized_, key_cache_, value_cache_, last_logits_,
          pc, mode, prompt, config, tokens, generated_count, next_token,
          logits, token_text, result, cutoff_idx, sample_count, prime_count,
          single_count, position, cb_count, cb_ret, delivered,
          primed, error, last_op,
          observe, fp_trace, prev, detect>>

engine_vars == <<kv_cache_initialized_, key_cache_, value_cache_, last_logits_>>

-----------------------------------------------------------------------------
\* Bounds of the model.

\* Vocabulary size (config_.n_vocab, 32000 in load_amb_model), scaled down.
n_vocab == 3

\* Longest prompt, in bytes.
MaxPromptLen == 1

\* Largest GenerationConfig.max_length a call is made with.
MaxMaxLength == 2

\* The random draw r of sample_token is one of the points
\* norm_factor * j / DrawSteps, j in 0 .. DrawSteps - 1, of [0, norm_factor).
DrawSteps == 4

\* ExpW(x) is 0 (underflow) for x <= -ExpUnderflow.
ExpUnderflow == 6

-----------------------------------------------------------------------------
\* Program constants (load_amb_model, DummyTokenizer).

n_embd == 2048
n_layers == 24
n_heads == 16
n_kv_heads == 16
max_seq_len == 2048
eos_token == 2
bos_token == 1

\* head_size_ = config.n_embd / config.n_heads
head_size_ == n_embd \div n_heads

\* kv_dim = config.n_kv_heads * head_size_
kv_dim == n_kv_heads * head_size_

Vocab == 0 .. (n_vocab - 1)

-----------------------------------------------------------------------------
\* Arithmetic helpers.

RECURSIVE Pow2(_)
Pow2(n) == IF n <= 0 THEN 1 ELSE 2 * Pow2(n - 1)

\* Model units per ln(2) of score: enough binary digits for every halving a
\* call can make (one by the temperature, one per history entry).
ScoreDen == Pow2(MaxPromptLen + MaxMaxLength + 1)

\* Float division x / d on exactly representable operands.
Div(x, d) == IF x >= 0 THEN x \div d ELSE -((-x) \div d)

Min(S) == CHOOSE x \in S : \A y \in S : x <= y

RECURSIVE SumTo(_, _)
\* f[0] + ... + f[n-1]
SumTo(f, n) == IF n <= 0 THEN 0 ELSE SumTo(f, n - 1) + f[n - 1]

RECURSIVE Flatten(_)
Flatten(ss) == IF ss = <<>> THEN <<>> ELSE Head(ss) \o Flatten(Tail(ss))

-----------------------------------------------------------------------------
\* Inputs.

\* Bytes a prompt is made of: an ASCII character and a byte above 0x7f.
Bytes == {0, 255}

Prompts == UNION {[1 .. n -> Bytes] : n \in 0 .. MaxPromptLen}

\* float values of GenerationConfig::temperature: 0.0 and 2.0
Temperatures == {0, 2}

\* float values of GenerationConfig::repetition_penalty: 1.0 and 2.0
Penalties == {1, 2}

\* float values of GenerationConfig::top_p, as fractions: 0, 0.5, 0.51
TopPs == {[num |-> 0, den |-> 1], [num |-> 1, den |-> 2], [num |-> 51, den |-> 100]}

Configs == [max_length : 0 .. MaxMaxLength,
            temperature : Temperatures,
            top_p : TopPs,
            repetition_penalty : Penalties,
            use_cache : BOOLEAN]

\* A score vector with value h * ln(2) at token t and 0 elsewhere.
Peak(t, h) == [i \in Vocab |-> IF i = t THEN h * ScoreDen ELSE 0]

\* The score vectors a forward pass may return (the code draws them at random).
ScoreVectors == {Peak(0, 1), Peak(0, -1), Peak(eos_token, 1)}

-----------------------------------------------------------------------------
\* DummyTokenizer (model.cpp:101-135).

\* static_cast<TokenId>(c) of a (signed) char holding byte b
CharToToken(b) == IF b >= 128 THEN b - 256 ELSE b

encode(text) == [i \in 1 .. Len(text) |-> CharToToken(text[i])]

\* static_cast<char>(token), as a byte
TokenToChar(t) == t % 256

decode(toks) == [i \in 1 .. Len(toks) |-> TokenToChar(toks[i])]

-----------------------------------------------------------------------------
\* Score adjustment (engine.cpp:68-78, 194-207).

\* engine.cpp:69-73: if (config.temperature > 0) logit /= config.temperature
ApplyTemperature(lg, temperature) ==
    IF temperature > 0
    THEN [i \in DOMAIN lg |-> Div(lg[i], temperature)]
    ELSE lg

\* engine.cpp:200-204 with the division on both branches
PenalizeSlotDivide(x, penalty) == Div(x, penalty)

\* engine.cpp:200-204: the sign-dependent rule on one slot
PenalizeSlot(x, penalty) == IF x > 0 THEN Div(x, penalty) ELSE x * penalty

\* engine.cpp:194-207 with one application per token id of the history
ApplyPenaltyPerId(lg, toks, penalty) ==
    [i \in DOMAIN lg |-> IF \E k \in DOMAIN toks : toks[k] = i
                         THEN PenalizeSlot(lg[i], penalty)
                         ELSE lg[i]]

RECURSIVE apply_repetition_penalty(_, _, _)
\* engine.cpp:194-207: one application per history entry, in history order
apply_repetition_penalty(lg, toks, penalty) ==
    IF toks = <<>>
    THEN lg
    ELSE LET token == Head(toks)
             hit == token >= 0 /\ token < n_vocab
             lg1 == IF hit
                    THEN [lg EXCEPT ![token] = PenalizeSlot(lg[token], penalty)]
                    ELSE lg
         IN  apply_repetition_penalty(lg1, Tail(toks), penalty)

\* The penalty the penalty step of the loop reads (config.repetition_penalty).
PenaltyHardCoded(cfg) == 2
PenaltyOf(cfg) == cfg.repetition_penalty

\* engine.cpp:66-78: the score vector handed to sample_token
AdjustLogits(last, toks, cfg) ==
    LET scaled == ApplyTemperature(last, cfg.temperature)
    IN  IF PenaltyOf(cfg) # 1
        THEN apply_repetition_penalty(scaled, toks, PenaltyOf(cfg))
        ELSE scaled

-----------------------------------------------------------------------------
\* sample_token (engine.cpp:210-273).

MaxOf(lg) == CHOOSE m \in {lg[i] : i \in DOMAIN lg} : \A i \in DOMAIN lg : lg[i] <= m

\* std::exp of a score x <= 0 given in units of ln(2)/ScoreDen, that is
\* 2^(x/ScoreDen), scaled by 2^ExpUnderflow * ScoreDen: exact where x/ScoreDen
\* is an integer, interpolated linearly in between, 0 below the underflow
\* threshold.
ExpW(x) ==
    LET q == (-x) \div ScoreDen
        r == (-x) % ScoreDen
    IN  IF q >= ExpUnderflow
        THEN 0
        ELSE Pow2(ExpUnderflow - q - 1) * (2 * ScoreDen - r)

\* engine.cpp:215-221: probs[i] before normalisation; sum_exp is their sum
Weights(lg) == LET max_logit == MaxOf(lg)
               IN  [i \in DOMAIN lg |-> ExpW(lg[i] - max_logit)]

SumExp(w) == SumTo(w, n_vocab)

\* engine.cpp:228: top_p < 1e-6f
TopPTiny(top_p) == top_p.num * 1000000 < top_p.den

\* engine.cpp:229-230 returning an iterator distance that is one too large
ArgMaxOneBased(w) ==
    1 + (CHOOSE i \in DOMAIN w : /\ \A j \in DOMAIN w : w[j] <= w[i]
                                 /\ \A j \in DOMAIN w : j < i => w[j] < w[i])

\* engine.cpp:229-230: std::max_element returns the first largest element
ArgMaxFirst(w) ==
    CHOOSE i \in DOMAIN w : /\ \A j \in DOMAIN w : w[j] <= w[i]
                            /\ \A j \in DOMAIN w : j < i => w[j] < w[i]

RECURSIVE OrdersOf(_, _)
\* The sequences that list the tokens of `rest` by non-increasing weight.
OrdersOf(w, rest) ==
    IF rest = {}
    THEN {<<>>}
    ELSE LET top == {i \in rest : \A j \in rest : w[j] <= w[i]}
         IN  UNION {{<<i>> \o s : s \in OrdersOf(w, rest \ {i})} : i \in top}

\* engine.cpp:234-239: the orders std::sort may leave `indices` in.  std::sort
\* is not stable, so tokens of equal probability may come in any order.
SortedOrders(w) == OrdersOf(w, DOMAIN w)

RECURSIVE CumW(_, _, _)
\* probs[indices[0]] + ... + probs[indices[i]], times sum_exp
CumW(w, indices, i) ==
    IF i < 0 THEN 0 ELSE CumW(w, indices, i - 1) + w[indices[i + 1]]

\* The running sums of lines 246 and 265, for i = 0 .. n_vocab - 1
PrefixSums(w, indices) == [i \in 0 .. (n_vocab - 1) |-> CumW(w, indices, i)]

\* engine.cpp:247: cumsum >= top_p, with cumsum = cum / sum_exp
CutoffReachedStrict(cum, sum_exp, top_p) == cum * top_p.den > top_p.num * sum_exp
CutoffReached(cum, sum_exp, top_p) == cum * top_p.den >= top_p.num * sum_exp

\* engine.cpp:242-251
CutoffIdx(cums, sum_exp, top_p) ==
    LET hits == {i \in DOMAIN cums : CutoffReached(cums[i], sum_exp, top_p)}
    IN  IF hits = {} THEN n_vocab - 1 ELSE Min(hits)

\* The random draws: r = norm_factor * draw.num / draw.den, in [0, norm_factor)
Draws == {[num |-> j, den |-> DrawSteps] : j \in 0 .. (DrawSteps - 1)}

\* engine.cpp:254-272 without the truncation at cutoff_idx
DrawTokenUntruncated(cums, indices, cutoff, draw) ==
    LET norm_factor == cums[n_vocab - 1]
        hits == {i \in 0 .. (n_vocab - 1) :
                   norm_factor * draw.num <= cums[i] * draw.den}
    IN  IF hits = {} THEN indices[1] ELSE indices[Min(hits) + 1]

\* engine.cpp:254-272: the first index whose cdf reaches r, and indices[0]
\* when none does
DrawToken(cums, indices, cutoff, draw) ==
    LET norm_factor == cums[cutoff]
        hits == {i \in 0 .. cutoff : norm_factor * draw.num <= cums[i] * draw.den}
    IN  IF hits = {} THEN indices[1] ELSE indices[Min(hits) + 1]

\* engine.cpp:233-273 for one order left by the sort: the token returned for
\* each draw, with the cutoff_idx computed on the way
OrderOutcomes(cums, indices, sum_exp, top_p) ==
    LET cutoff == CutoffIdx(cums, sum_exp, top_p)
    IN  {<<DrawToken(cums, indices, cutoff, draw), cutoff>> : draw \in Draws}

\* engine.cpp:210-273: every (token returned, cutoff_idx) sample_token can
\* produce on `lg`, over the orders the sort may leave and the draws; the
\* early return of line 229 computes no cutoff_idx (-1)
sample_token(lg, top_p) ==
    LET w == Weights(lg)
        sum_exp == SumExp(w)
    IN  IF TopPTiny(top_p)
        THEN {<<ArgMaxFirst(w), -1>>}
        ELSE UNION {OrderOutcomes(PrefixSums(w, indices), indices, sum_exp, top_p) :
                      indices \in SortedOrders(w)}

-----------------------------------------------------------------------------
\* The engine and its calls.

NoCall == [called |-> FALSE]

\* A GenerationConfig that stands for "no call in progress".
IdleConfig == [max_length |-> 0, temperature |-> 0, top_p |-> [num |-> 0, den |-> 1],
               repetition_penalty |-> 1, use_cache |-> FALSE]

\* The ways a call can have ended normally: the break of line 86, the break
\* of line 100, and the loop condition of line 64 turning false.  A call that
\* ended with an exception is "Failed".
Terminal == {"Stopped", "Cancelled", "Exhausted"}

\* No call in progress: the call's locals do not exist.
CallIdle ==
    /\ pc' = "Idle"
    /\ mode' = "none"
    /\ prompt' = <<>>
    /\ config' = IdleConfig
    /\ tokens' = <<>>
    /\ generated_count' = 0
    /\ next_token' = 0
    /\ logits' = <<>>
    /\ token_text' = <<>>
    /\ result' = <<>>
    /\ cutoff_idx' = -1
    /\ sample_count' = 0
    /\ prime_count' = 0
    /\ single_count' = 0
    /\ position' = 0
    /\ cb_count' = 0
    /\ cb_ret' = TRUE
    /\ delivered' = <<>>
    /\ primed' = <<>>
    /\ fp_trace' = <<>>

\* Engine::Impl::Impl (engine.cpp:21-29)
EngineInit ==
    /\ kv_cache_initialized_ = FALSE
    /\ key_cache_ = <<>>
    /\ value_cache_ = <<>>
    /\ last_logits_ = <<>>

InitCommon ==
    /\ EngineInit
    /\ pc = "Idle"
    /\ mode = "none"
    /\ prompt = <<>>
    /\ config = IdleConfig
    /\ tokens = <<>>
    /\ generated_count = 0
    /\ next_token = 0
    /\ logits = <<>>
    /\ token_text = <<>>
    /\ result = <<>>
    /\ cutoff_idx = -1
    /\ sample_count = 0
    /\ prime_count = 0
    /\ single_count = 0
    /\ position = 0
    /\ cb_count = 0
    /\ cb_ret = TRUE
    /\ delivered = <<>>
    /\ primed = <<>>
    /\ error = "none"
    /\ last_op = "init"
    /\ fp_trace = <<>>
    /\ prev = NoCall
    /\ detect = NoCall

Init == InitCommon /\ observe = FALSE

\* initialize_kv_cache (engine.cpp:132-148): the sizes of the n_layers buffers
KvBuffers(seq_len) == [i \in 1 .. n_layers |-> seq_len * kv_dim]

\* process_tokens / process_single_token (engine.cpp:151-186): last_logits_
\* is resized to n_vocab and filled with fresh random values.
Forward(v) ==
    /\ last_logits_' = v
    /\ fp_trace' = IF observe THEN Append(fp_trace, v) ELSE fp_trace

\* engine.cpp:49: !kv_cache_initialized_ || !config.use_cache
NeedsInit(initialized, use_cache) == ~initialized \/ ~use_cache

\* engine.cpp:49-51: initialize_kv_cache(config.max_length) if needed
CacheSetup(c) ==
    IF NeedsInit(kv_cache_initialized_, c.use_cache)
    THEN /\ key_cache_' = KvBuffers(c.max_length)
         /\ value_cache_' = KvBuffers(c.max_length)
         /\ kv_cache_initialized_' = TRUE
         /\ last_op' = "call+init"
    ELSE /\ UNCHANGED <<key_cache_, value_cache_, kv_cache_initialized_>>
         /\ last_op' = "call"

\* engine.cpp:58: process_tokens(tokens)
PrimeArgNone(toks) == <<>>
PrimeArg(toks) == toks

\* engine.cpp:46-62 (and 32-39 for generate): encode the prompt, set up the
\* cache, run the full-prompt forward pass, enter the loop.
Begin(m, p, c) ==
    /\ pc = "Idle"
    /\ mode' = m
    /\ prompt' = p
    /\ config' = c
    /\ result' = IF m = "generate" THEN p ELSE <<>>
    /\ tokens' = encode(p)
    /\ CacheSetup(c)
    /\ primed' = PrimeArg(tokens')
    /\ \E v \in ScoreVectors : Forward(v)
    /\ prime_count' = prime_count + 1
    /\ generated_count' = 0
    /\ next_token' = 0
    /\ pc' = "LoopHead"
    /\ error' = "none"
    /\ UNCHANGED <<logits, token_text, cutoff_idx, sample_count, single_count,
                   position, cb_count, cb_ret, delivered, observe, detect, prev>>

\* Engine::generate / Engine::generate_with_callback called by the user
Call ==
    /\ pc = "Idle"
    /\ \E m \in {"generate", "stream"}, p \in Prompts, c \in Configs : Begin(m, p, c)

\* engine.cpp:64: while (generated_count < config.max_length)
LoopCondInclusive(count, max_length) == count <= max_length
LoopCondDouble(count, max_length) == count < 2 * max_length
LoopCond(count, max_length) == count < max_length

\* engine.cpp:84-85: eos_token && next_token == eos_token.value()
IsEosBos(token) == token = bos_token
IsEos(token) == token = eos_token

\* engine.cpp:64-87: one pass from the loop head to the eos check
SampleStep ==
    /\ pc = "LoopHead"
    /\ LoopCond(generated_count, config.max_length)
    /\ LET lg == AdjustLogits(last_logits_, tokens, config)
       IN  \E out \in sample_token(lg, config.top_p) :
             /\ logits' = lg
             /\ next_token' = out[1]
             /\ cutoff_idx' = out[2]
             /\ pc' = IF IsEos(out[1]) THEN "Stopped" ELSE "Emit"
    /\ sample_count' = sample_count + 1
    /\ last_op' = "sample"
    /\ UNCHANGED <<engine_vars, mode, prompt, config, tokens, generated_count,
                   token_text, result, prime_count, single_count, position,
                   cb_count, cb_ret, delivered, primed, error,
                   observe, detect, fp_trace, prev>>

\* engine.cpp:64, condition false: the loop ends and the call returns
LoopExit ==
    /\ pc = "LoopHead"
    /\ ~LoopCond(generated_count, config.max_length)
    /\ pc' = "Exhausted"
    /\ last_op' = "exit"
    /\ UNCHANGED <<engine_vars, mode, prompt, config, tokens, generated_count,
                   next_token, logits, token_text, result, cutoff_idx,
                   sample_count, prime_count, single_count, position, cb_count,
                   cb_ret, delivered, primed, error,
                   observe, detect, fp_trace, prev>>

\* engine.cpp:90: tokens.push_back(next_token)
PushFront(toks, token) == <<token>> \o toks
PushBack(toks, token) == Append(toks, token)

\* engine.cpp:93: the position argument, tokens.size() - 1 after the push_back
PositionOfNext(toks) == Len(toks)
PositionOf(toks) == Len(toks) - 1

\* engine.cpp:90-96: append, single-token forward pass, decode
EmitStep ==
    /\ pc = "Emit"
    /\ tokens' = PushBack(tokens, next_token)
    /\ position' = PositionOf(tokens')
    /\ \E v \in ScoreVectors : Forward(v)
    /\ single_count' = single_count + 1
    /\ token_text' = decode(<<next_token>>)
    /\ pc' = "Callback"
    /\ last_op' = "emit"
    /\ UNCHANGED <<kv_cache_initialized_, key_cache_, value_cache_, mode, prompt,
                   config, generated_count, next_token, logits, result,
                   cutoff_idx, sample_count, prime_count, cb_count, cb_ret,
                   delivered, primed, error, observe, detect, prev>>

\* engine.cpp:34-37: the callback of Impl::generate
GenerateLambdaAssign(res, text) == text
GenerateLambda(res, text) == res \o text

\* What a callback may return: generate's lambda returns true, a caller's
\* callback returns either value.
CallbackReturns(m) == IF m = "generate" THEN {TRUE} ELSE BOOLEAN

\* engine.cpp:99: the loop goes on iff the callback returned true
KeepGoingAlways(ret) == TRUE
KeepGoing(ret) == ret

\* engine.cpp:103: generated_count++
NextCount(count) == count + 1

\* engine.cpp:99-103: invoke the callback, break or count
CallbackStep ==
    /\ pc = "Callback"
    /\ \E ret \in CallbackReturns(mode) :
         /\ cb_ret' = ret
         /\ IF KeepGoing(ret)
            THEN /\ generated_count' = NextCount(generated_count)
                 /\ pc' = "LoopHead"
            ELSE /\ generated_count' = generated_count
                 /\ pc' = "Cancelled"
    /\ cb_count' = cb_count + 1
    /\ delivered' = Append(delivered, <<next_token, token_text>>)
    /\ result' = IF mode = "generate" THEN GenerateLambda(result, token_text) ELSE result
    /\ last_op' = "callback"
    /\ UNCHANGED <<engine_vars, mode, prompt, config, tokens, next_token, logits,
                   token_text, cutoff_idx, sample_count, prime_count,
                   single_count, position, primed, error,
                   observe, detect, fp_trace, prev>>

\* The configs of the calls made where exceptions, get_logits and the history
\* of calls are followed: the sampling parameters are left at one value.
PlainConfigs == {c \in Configs : /\ c.temperature = 0
                                 /\ c.repetition_penalty = 1
                                 /\ c.top_p = [num |-> 1, den |-> 2]}

\* engine.cpp:46-58: whether the cache set-up of lines 49-51 has run when the
\* statement `stage` of the call throws ("encode": line 46, "prime": line 58)
CacheSetUpBeforeAll(stage) == TRUE
CacheSetUpBefore(stage) == stage # "encode"

\* engine.cpp:157, 176: last_logits_ after a forward pass that throws, either
\* before the resize (std::bad_alloc) or after it (std::random_device)
ThrownLogits ==
    {last_logits_, IF last_logits_ = <<>> THEN Peak(0, 0) ELSE last_logits_}

\* engine.cpp:46-58 with an exception: tokenizer()->encode throws, or
\* process_tokens does; nothing catches it and the call ends with it
CallThrows ==
    /\ pc = "Idle"
    /\ \E m \in {"generate", "stream"}, p \in Prompts, c \in PlainConfigs,
          stage \in {"encode", "prime"} :
         /\ mode' = m
         /\ prompt' = p
         /\ config' = c
         /\ result' = IF m = "generate" THEN p ELSE <<>>
         /\ tokens' = IF stage = "encode" THEN <<>> ELSE encode(p)
         /\ IF CacheSetUpBefore(stage)
            THEN CacheSetup(c)
            ELSE /\ UNCHANGED <<key_cache_, value_cache_, kv_cache_initialized_>>
                 /\ last_op' = "call"
         /\ IF stage = "prime"
            THEN /\ primed' = PrimeArg(tokens')
                 /\ prime_count' = prime_count + 1
                 /\ last_logits_' \in ThrownLogits
            ELSE UNCHANGED <<primed, prime_count, last_logits_>>
         /\ error' = IF stage = "encode" THEN "encode" ELSE "forward"
    /\ pc' = "Failed"
    /\ UNCHANGED <<generated_count, next_token, logits, token_text, cutoff_idx,
                   sample_count, single_count, position, cb_count, cb_ret,
                   delivered, observe, detect, fp_trace, prev>>

\* engine.cpp:90-93 with an exception: process_single_token throws
StepThrows ==
    /\ pc = "Emit"
    /\ tokens' = PushBack(tokens, next_token)
    /\ position' = PositionOf(tokens')
    /\ single_count' = single_count + 1
    /\ last_logits_' \in ThrownLogits
    /\ error' = "forward"
    /\ pc' = "Failed"
    /\ last_op' = "emit"
    /\ UNCHANGED <<kv_cache_initialized_, key_cache_, value_cache_, mode, prompt,
                   config, generated_count, next_token, logits, token_text,
                   result, cutoff_idx, sample_count, prime_count, cb_count,
                   cb_ret, delivered, primed, observe, detect, fp_trace, prev>>

\* engine.cpp:110: the KV buffers get_logits sets up (none)
GetLogitsBuffersFresh(keys) == <<>>
GetLogitsBuffers(keys) == keys

\* Engine::get_logits (engine.cpp:107-116), called between generation calls
\* or from inside a streaming callback: encode, process_tokens, return
\* last_logits_
GetLogits ==
    /\ pc \in {"Idle", "Callback"}
    /\ \E p \in Prompts, v \in ScoreVectors : last_logits_' = v
    /\ key_cache_' = GetLogitsBuffers(key_cache_)
    /\ value_cache_' = GetLogitsBuffers(value_cache_)
    /\ last_op' = "get_logits"
    /\ UNCHANGED <<kv_cache_initialized_, pc, mode, prompt, config, tokens,
                   generated_count, next_token, logits, token_text, result,
                   cutoff_idx, sample_count, prime_count, single_count,
                   position, cb_count, cb_ret, delivered, primed, error,
                   observe, detect, fp_trace, prev>>

\* engine.cpp:105 (and 40): the call returns; the engine is ready for another
Return ==
    /\ pc \in Terminal \cup {"Failed"}
    /\ CallIdle
    /\ last_op' = "return"
    /\ UNCHANGED <<engine_vars, error, observe, detect, prev>>

Next == Call \/ SampleStep \/ LoopExit \/ EmitStep \/ CallbackStep \/ Return

Spec == Init /\ [][Next]_vars

-----------------------------------------------------------------------------
\* Generation calls that may end with an exception, and get_logits calls
\* between them and from inside their callbacks.

PlainCall ==
    /\ pc = "Idle"
    /\ \E m \in {"generate", "stream"}, p \in Prompts, c \in PlainConfigs :
         Begin(m, p, c)

NextFaults ==
    \/ PlainCall
    \/ CallThrows
    \/ SampleStep
    \/ LoopExit
    \/ EmitStep
    \/ StepThrows
    \/ CallbackStep
    \/ GetLogits
    \/ Return

SpecFaults == Init /\ [][NextFaults]_vars

-----------------------------------------------------------------------------
\* One generation call on a fresh engine, from its start to its return, whose
\* callees all return: the call runs synchronously on the caller's thread,
\* so each of its steps is taken once it is enabled.

LiveConfigs == {c \in PlainConfigs : c.use_cache}

LiveCall ==
    /\ pc = "Idle"
    /\ last_op = "init"
    /\ \E m \in {"generate", "stream"}, p \in Prompts, c \in LiveConfigs :
         Begin(m, p, c)

NextLive == LiveCall \/ SampleStep \/ LoopExit \/ EmitStep \/ CallbackStep \/ Return

\* SampleStep is enabled exactly when the call is at the loop head with the
\* loop condition true (sample_token always returns a token), so weak
\* fairness of SampleStep is written out with that state predicate.
SampleReady == pc = "LoopHead" /\ LoopCond(generated_count, config.max_length)

FairSample == ([]<>~SampleReady) \/ ([]<><<SampleStep>>_vars)

SpecLive ==
    /\ Init
    /\ [][NextLive]_vars
    /\ FairSample
    /\ WF_vars(LoopExit)
    /\ WF_vars(EmitStep)
    /\ WF_vars(CallbackStep)

-----------------------------------------------------------------------------
\* Model::detect_format (model.cpp:34-75).

\* sizeof(header)
HeaderLen == 8

\* The magic strings of lines 58, 63 and 68, as bytes
GgufMagic == <<71, 71, 85, 70>>
OnnxMagic == <<8, 0, 0, 0, 0, 0, 0, 0>>
AmbMagic == <<65, 77, 66, 69, 69>>

\* A path is the sequence of its parts between the dots; a part is a
\* sequence of characters.
Stem == <<"m">>
Exts == {<<"g", "g", "u", "f">>, <<"G", "G", "U", "F">>, <<"o", "n", "n", "x">>,
         <<"a", "m", "b">>, <<"A", "m", "b">>, <<"b", "i", "n">>, <<>>}
Paths == {<<Stem>>} \cup {<<Stem, e>> : e \in Exts}
                   \cup {<<Stem, e1, e2>> : e1 \in Exts, e2 \in Exts}

\* File contents: each magic string followed by zero bytes, eight bytes
\* that match none, a file holding "GGUF" and nothing more, an empty file.
Pad(magic) == magic \o [i \in 1 .. (HeaderLen - Len(magic)) |-> 0]
Contents == {Pad(GgufMagic), Pad(OnnxMagic), Pad(AmbMagic),
             [i \in 1 .. HeaderLen |-> 1], GgufMagic, <<>>}
Files == {[exists |-> FALSE, content |-> <<>>]}
           \cup {[exists |-> TRUE, content |-> c] : c \in Contents}

\* std::tolower on the characters used here
ToLowerChar(c) ==
    CASE c = "G" -> "g" [] c = "U" -> "u" [] c = "F" -> "f" [] c = "A" -> "a"
      [] OTHER -> c

ToLower(part) == [i \in 1 .. Len(part) |-> ToLowerChar(part[i])]

\* std::memcmp(header, magic, n) == 0 on a header that was read
StartsWith(bytes, magic) ==
    Len(bytes) >= Len(magic) /\ SubSeq(bytes, 1, Len(magic)) = magic

\* model.cpp:36-45: the format the extension names ("none": no dot, or the
\* part after the last dot is none of the three)
ExtensionFormat(path) ==
    IF Len(path) < 2
    THEN "none"
    ELSE LET ext == ToLower(path[Len(path)])
         IN  IF ext = <<"a", "m", "b">> THEN "amb"
             ELSE IF ext = <<"g", "g", "u", "f">> THEN "gguf"
             ELSE IF ext = <<"o", "n", "n", "x">> THEN "onnx"
             ELSE "none"

\* model.cpp:53-71: the format the header names, once file.read got all
\* HeaderLen bytes
HeaderFormat(content) ==
    IF Len(content) < HeaderLen THEN "none"
    ELSE IF StartsWith(content, GgufMagic) THEN "gguf"
    ELSE IF StartsWith(content, OnnxMagic) THEN "onnx"
    ELSE IF StartsWith(content, AmbMagic) THEN "amb"
    ELSE "none"

\* model.cpp:34-75: the string returned, or "throws" for the runtime_error
\* of line 50
detect_format(path, file) ==
    IF ExtensionFormat(path) # "none" THEN ExtensionFormat(path)
    ELSE IF ~file.exists THEN "throws"
    ELSE IF HeaderFormat(file.content) # "none" THEN HeaderFormat(file.content)
    ELSE "amb"

\* A call of Model::detect_format
DetectFormat ==
    /\ \E path \in Paths, file \in Files :
         detect' = [called |-> TRUE, path |-> path, file |-> file,
                    format |-> detect_format(path, file)]
    /\ UNCHANGED <<engine_vars, pc, mode, prompt, config, tokens,
                   generated_count, next_token, logits, token_text, result,
                   cutoff_idx, sample_count, prime_count, single_count,
                   position, cb_count, cb_ret, delivered, primed, error,
                   last_op, observe, fp_trace, prev>>

NextFormat == DetectFormat

SpecFormat == Init /\ [][NextFormat]_vars

-----------------------------------------------------------------------------
\* Two calls in a row on one engine, the first one's outcome kept in prev.

SessionReturn ==
    /\ pc \in Terminal
    /\ ~prev.called
    /\ prev' = [called |-> TRUE, prompt |-> prompt, config |-> config,
                tokens |-> tokens, result |-> result, fp_trace |-> fp_trace]
    /\ CallIdle
    /\ last_op' = "return"
    /\ UNCHANGED <<engine_vars, error, observe, detect>>

NextSession ==
    PlainCall \/ SampleStep \/ LoopExit \/ EmitStep \/ CallbackStep \/ SessionReturn

SpecSession == Init /\ [][NextSession]_vars

-----------------------------------------------------------------------------
\* Two generate calls with the same prompt and config, each on a freshly
\* constructed engine, the first one's outcome kept in prev.

PairConfigs == {c \in Configs : c.use_cache}

InitPair == InitCommon /\ observe = TRUE

\* Engine::generate on a fresh engine; the second call repeats the first's
\* arguments.
PairCall ==
    /\ pc = "Idle"
    /\ \E p \in Prompts, c \in PairConfigs :
         /\ prev.called => (p = prev.prompt /\ c = prev.config)
         /\ Begin("generate", p, c)

\* The first call returns (engine.cpp:40) and its engine is replaced by a
\* newly constructed one (engine.cpp:21-29, 277).
PairReturn ==
    /\ pc \in Terminal
    /\ ~prev.called
    /\ prev' = [called |-> TRUE, prompt |-> prompt, config |-> config,
                tokens |-> tokens, result |-> result, fp_trace |-> fp_trace]
    /\ CallIdle
    /\ kv_cache_initialized_' = FALSE
    /\ key_cache_' = <<>>
    /\ value_cache_' = <<>>
    /\ last_logits_' = <<>>
    /\ last_op' = "return"
    /\ UNCHANGED <<error, observe, detect>>

NextPair == PairCall \/ SampleStep \/ LoopExit \/ EmitStep \/ CallbackStep \/ PairReturn

SpecPair == InitPair /\ [][NextPair]_vars

\* Calls with exceptions and get_logits (NextFaults), with the score vectors
\* of each call's own forward passes recorded in fp_trace.
SpecReentrant == InitPair /\ [][NextFaults]_vars

-----------------------------------------------------------------------------
\* Properties.

\* The call has sampled and not yet run the next forward pass: next_token,
\* logits and cutoff_idx are those of the sample, last_logits_ its input.
JustSampled == pc \in {"Emit", "Stopped"}

\* C1: when the sampled token is the eos token the call ends at that step:
\* the token is not appended, no single-token forward pass is issued for it,
\* the callback is not invoked for it, and the only step left is the return.
C1_EosStops ==
    /\ [][(pc = "LoopHead" /\ sample_count' = sample_count + 1 /\ next_token' = eos_token)
            => /\ pc' = "Stopped"
               /\ tokens' = tokens
               /\ single_count' = single_count
               /\ cb_count' = cb_count
               /\ delivered' = delivered]_vars
    /\ [][pc = "Stopped" => pc' = "Idle"]_vars

\* C1 happens: eos is sampled after one token was emitted.
C1_Witness ==
    /\ pc = "Stopped"
    /\ next_token = eos_token
    /\ cb_count = 1
    /\ tokens = Append(encode(prompt), delivered[1][1])

\* C2: a callback invocation that returns false is the last step of the loop:
\* the call is Cancelled with the invocations made so far, it has sampled and
\* run a single-token forward pass exactly once per invocation, and the only
\* step left is the return.
C2_CancelStops ==
    /\ [][(pc = "Callback" /\ cb_ret' = FALSE)
            => /\ pc' = "Cancelled"
               /\ cb_count' = cb_count + 1
               /\ sample_count' = cb_count'
               /\ single_count' = cb_count']_vars
    /\ [][pc = "Cancelled" => pc' = "Idle"]_vars

\* C2 happens: the callback stops on the first token of a longer call.
C2_Witness ==
    /\ pc = "Cancelled"
    /\ ~cb_ret
    /\ cb_count = 1
    /\ config.max_length = 2

\* C3 as stated: the number of callback invocations never exceeds max_length
\* and equals it exactly when the call ends Exhausted.
C3_Original ==
    /\ cb_count <= config.max_length
    /\ pc \in Terminal => (cb_count = config.max_length <=> pc = "Exhausted")

\* C3 amended: the number of callback invocations never exceeds max_length;
\* it equals max_length when the call ends Exhausted, is less when it ends
\* Stopped, and is between 1 and max_length when it ends Cancelled.
C3_Amended ==
    /\ cb_count <= config.max_length
    /\ pc = "Exhausted" => cb_count = config.max_length
    /\ pc = "Stopped" => cb_count < config.max_length
    /\ pc = "Cancelled" => (1 <= cb_count /\ cb_count <= config.max_length)

\* C3 happens: a call cancelled by its max_length-th callback invocation.
C3_Witness ==
    /\ pc = "Cancelled"
    /\ cb_count = config.max_length
    /\ config.max_length = 2

\* The text fragments the callback received, in order.
Fragments == [i \in 1 .. Len(delivered) |-> delivered[i][2]]

\* C4: all through a generate call, and so when it returns, the string built
\* by generate is the prompt followed by the fragments its always-continue
\* callback was given, in order.
C4_GenerateIsConcat ==
    mode = "generate" => /\ result = prompt \o Flatten(Fragments)
                         /\ cb_ret

\* C4 happens: a generate call returns after two fragments.
C4_Witness ==
    /\ mode = "generate"
    /\ pc \in Terminal
    /\ Len(delivered) = 2
    /\ Len(result) = Len(prompt) + 2

\* C5: two generate calls with the same prompt and config on fresh engines,
\* whose forward passes returned the same scores, end with the same token
\* sequence and the same text.
C5_Deterministic ==
    (/\ pc \in Terminal
     /\ prev.called
     /\ prev.prompt = prompt
     /\ prev.config = config
     /\ prev.fp_trace = fp_trace)
        => (prev.tokens = tokens /\ prev.result = result)

\* C6: with temperature 0 the sampled token is the first token of highest
\* score.
C6_GreedyAtZero ==
    (JustSampled /\ config.temperature = 0) => next_token = ArgMaxFirst(logits)

\* C7: the position handed to process_single_token lies inside every cache
\* buffer and below max_seq_len.
C7_PositionInCache ==
    single_count > 0
        => /\ position < max_seq_len
           /\ \A i \in DOMAIN key_cache_ :
                /\ (position + 1) * kv_dim <= key_cache_[i]
                /\ (position + 1) * kv_dim <= value_cache_[i]

\* max_length = 0, or top_p outside (0, 1]
InvalidConfig(c) ==
    \/ c.max_length = 0
    \/ c.top_p.num <= 0
    \/ c.top_p.num > c.top_p.den

\* C8: a call with an invalid config issues no forward pass.
C8_InvalidRejected ==
    (pc # "Idle" /\ InvalidConfig(config)) => (prime_count = 0 /\ single_count = 0)

\* One token has a probability above all others.
UniqueMax(lg) == \A i \in DOMAIN lg : i # ArgMaxFirst(lg) => lg[i] < lg[ArgMaxFirst(lg)]

\* top_p <= the highest probability
TopPAtMostMax(lg, top_p) ==
    top_p.num * SumExp(Weights(lg)) <= Weights(lg)[ArgMaxFirst(lg)] * top_p.den

\* top_p is above the highest probability, by at most 1/50
TopPJustAboveMax(lg, top_p) ==
    LET w == Weights(lg)
        excess == top_p.num * SumExp(w) - w[ArgMaxFirst(lg)] * top_p.den
    IN  excess > 0 /\ excess * 50 <= SumExp(w) * top_p.den

\* C9 as stated: with top_p just above the probability of the unique most
\* likely token, the nucleus is that token alone and it is the one returned.
C9_Original ==
    (JustSampled /\ UniqueMax(logits) /\ TopPJustAboveMax(logits, config.top_p))
        => (cutoff_idx = 0 /\ next_token = ArgMaxFirst(logits))

\* C9 amended: with top_p at most the probability of the unique most likely
\* token (and not below 1e-6) the nucleus is that token alone and it is the
\* one returned; with top_p above that probability the nucleus holds at
\* least two tokens.
C9_Amended ==
    (JustSampled /\ UniqueMax(logits) /\ ~TopPTiny(config.top_p))
        => IF TopPAtMostMax(logits, config.top_p)
           THEN cutoff_idx = 0 /\ next_token = ArgMaxFirst(logits)
           ELSE cutoff_idx >= 1

\* C9 happens: top_p equals the probability of the unique most likely token.
C9_Witness ==
    /\ JustSampled
    /\ UniqueMax(logits)
    /\ config.top_p = [num |-> 1, den |-> 2]
    /\ 2 * Weights(logits)[ArgMaxFirst(logits)] = SumExp(Weights(logits))
    /\ cutoff_idx = 0

\* C10: with repetition_penalty = 1.0 the vector handed to sample_token is
\* the temperature-scaled score vector of the last forward pass.
C10_PenaltyOneIsNoOp ==
    (JustSampled /\ config.repetition_penalty = 1)
        => logits = ApplyTemperature(last_logits_, config.temperature)

\* C10 happens: penalty 1.0 with a token in the history whose score a penalty
\* would change.
C10_Witness ==
    /\ JustSampled
    /\ config.repetition_penalty = 1
    /\ config.temperature = 2
    /\ \E k \in DOMAIN tokens : tokens[k] \in Vocab /\ last_logits_[tokens[k]] # 0

\* A call's prologue has just run (engine.cpp:46-58).
CallStarted == last_op \in {"call", "call+init"}

\* C11: in every generation call process_tokens is invoked exactly once, on
\* the whole encoded prompt, before any sampling and before any single-token
\* forward pass, and no decode step invokes it again.
C11_PrimeOnce ==
    /\ pc = "Idle" => prime_count = 0
    /\ pc # "Idle" => (prime_count = 1 /\ primed = encode(prompt))
    /\ (pc = "LoopHead" /\ CallStarted) => (sample_count = 0 /\ single_count = 0)

\* C11 happens: two decode steps after the one priming pass of a prompt.
C11_Witness ==
    /\ pc = "Callback"
    /\ single_count = 2
    /\ prime_count = 1
    /\ Len(primed) = 1

\* C12: a get_logits step runs a forward pass and nothing else: it samples
\* nothing, invokes no callback, and leaves the key and value buffers and the
\* cache-initialized flag as they were, also inside a generation call.
C12_GetLogitsFrame ==
    [][last_op' = "get_logits"
         => /\ last_logits_' \in ScoreVectors
            /\ UNCHANGED <<key_cache_, value_cache_, kv_cache_initialized_,
                           pc, tokens, sample_count, single_count, cb_count,
                           delivered, prime_count>>]_vars

\* C12 happens: get_logits was called from the callback of a call whose
\* cache is set up.
C12_Witness ==
    /\ pc = "Callback"
    /\ last_op = "get_logits"
    /\ kv_cache_initialized_
    /\ key_cache_ = KvBuffers(config.max_length)
    /\ config.max_length = 2

\* C13: a call that ended with a forward-pass exception is followed by no
\* callback invocation, and the next call on the engine runs
\* initialize_kv_cache whatever its use_cache.
C13_FailureResetsCache ==
    /\ [][pc = "Failed" => (pc' = "Idle" /\ cb_count' = 0)]_vars
    /\ [][(pc = "Idle" /\ error = "forward" /\ last_op' \in {"call", "call+init"})
            => last_op' = "call+init"]_vars

\* C14: a call whose encode throws ends there: the key and value buffers,
\* the flag and last_logits_ are as before the call, no forward pass was
\* issued, nothing was sampled and the callback was not invoked; the only
\* step left is the return.
C14_EncodeFailure ==
    /\ [][(pc = "Idle" /\ pc' = "Failed" /\ error' = "encode")
            => /\ UNCHANGED engine_vars
               /\ prime_count' = 0
               /\ single_count' = 0
               /\ sample_count' = 0
               /\ cb_count' = 0]_vars
    /\ [][(pc = "Failed" /\ error = "encode")
            => (pc' = "Idle" /\ UNCHANGED engine_vars)]_vars

\* C14 happens: encode throws on an engine whose cache an earlier call set up.
C14_Witness ==
    /\ pc = "Failed"
    /\ error = "encode"
    /\ kv_cache_initialized_
    /\ key_cache_ = KvBuffers(2)
    /\ Len(prompt) = 1

\* C15: every token handed to process_tokens, and every token of the
\* sequence that process_single_token and the sampler are given, is in
\* [0, n_vocab).
C15_TokensInVocab ==
    /\ \A k \in DOMAIN primed : primed[k] \in Vocab
    /\ \A k \in DOMAIN tokens : tokens[k] \in Vocab

\* The token sequence `new` starts with the token sequence `old`.
Continues(old, new) ==
    Len(old) <= Len(new) /\ SubSeq(new, 1, Len(old)) = old

\* C16: a call runs initialize_kv_cache when the cache was never initialized
\* or use_cache is false; otherwise it keeps the cache only when its prompt
\* continues the token sequence of the previous call, and runs
\* initialize_kv_cache when it does not.
C16_CacheResetPolicy ==
    [][(pc = "Idle" /\ last_op' \in {"call", "call+init"})
         => IF ~kv_cache_initialized_ \/ ~config'.use_cache
            THEN last_op' = "call+init"
            ELSE last_op' = "call"
                   <=> (prev.called /\ Continues(prev.tokens, tokens'))]_vars

\* C17: once the cache is allocated there are n_layers key buffers and
\* n_layers value buffers of max_seq_len * n_kv_heads * head_size_ entries.
C17_BufferSizes ==
    kv_cache_initialized_
        => /\ Len(key_cache_) = n_layers
           /\ Len(value_cache_) = n_layers
           /\ \A i \in 1 .. n_layers :
                /\ key_cache_[i] = max_seq_len * n_kv_heads * head_size_
                /\ value_cache_[i] = max_seq_len * n_kv_heads * head_size_

\* C18: a decode step that does not hit eos samples, then appends the token
\* and runs one single-token forward pass and decodes, then invokes the
\* callback; the k-th emitted token is the last of the sequence and is
\* processed at position prompt length + k - 1.
C18_StepOrder ==
    /\ pc = "LoopHead"
         => (sample_count = single_count /\ single_count = cb_count)
    /\ pc = "Emit"
         => /\ sample_count = single_count + 1
            /\ single_count = cb_count
            /\ Len(tokens) = Len(encode(prompt)) + single_count
    /\ pc = "Callback"
         => /\ sample_count = single_count
            /\ single_count = cb_count + 1
            /\ position = Len(encode(prompt)) + single_count - 1
            /\ Len(tokens) = position + 1
            /\ tokens[position + 1] = next_token
            /\ token_text = decode(<<next_token>>)

\* C18 happens: the second emitted token of a one-token prompt, at position 2.
C18_Witness ==
    /\ pc = "Callback"
    /\ Len(prompt) = 1
    /\ single_count = 2
    /\ position = 2

\* How often token id i occurs in the history.
Occurrences(toks, i) == Cardinality({k \in DOMAIN toks : toks[k] = i})

RECURSIVE PenalizedTimes(_, _, _)
\* x after n applications of: divide by the penalty if positive, multiply by
\* it otherwise.
PenalizedTimes(x, penalty, n) ==
    IF n <= 0
    THEN x
    ELSE PenalizedTimes(IF x > 0 THEN Div(x, penalty) ELSE x * penalty, penalty, n - 1)

\* C19 as stated: with a penalty other than 1.0, the slot of a token id that
\* occurs in the history is divided by the penalty if positive and multiplied
\* by it otherwise, and every other slot is unchanged.
C19_Original ==
    (JustSampled /\ config.repetition_penalty # 1)
        => \A i \in Vocab :
             logits[i] = PenalizedTimes(ApplyTemperature(last_logits_, config.temperature)[i],
                                        config.repetition_penalty,
                                        IF Occurrences(tokens, i) > 0 THEN 1 ELSE 0)

\* C19 amended: with a penalty other than 1.0, the rule (divide if positive,
\* multiply otherwise) is applied to the slot of a token id once for every
\* occurrence of the id in the history; slots of ids that do not occur are
\* unchanged and history entries outside [0, n_vocab) change nothing.
C19_Amended ==
    (JustSampled /\ config.repetition_penalty # 1)
        => \A i \in Vocab :
             logits[i] = PenalizedTimes(ApplyTemperature(last_logits_, config.temperature)[i],
                                        config.repetition_penalty,
                                        Occurrences(tokens, i))

\* C19 happens: a token id with a nonzero score occurs twice in the history.
C19_Witness ==
    /\ JustSampled
    /\ config.repetition_penalty = 2
    /\ \E i \in Vocab : Occurrences(tokens, i) = 2 /\ last_logits_[i] # 0

\* C20: when the top-p truncation applies, for some order of the tokens by
\* non-increasing probability cutoff_idx closes the shortest prefix whose
\* cumulative probability reaches top_p, and the token returned is one of
\* that prefix.
C20_TokenInNucleus ==
    (JustSampled /\ ~TopPTiny(config.top_p))
        => LET w == Weights(logits)
               sum_exp == SumExp(w)
               reaches(cum) == cum * config.top_p.den >= config.top_p.num * sum_exp
           IN  /\ cutoff_idx >= 0
               /\ \E indices \in SortedOrders(w) :
                    /\ \A i \in 0 .. (cutoff_idx - 1) : ~reaches(CumW(w, indices, i))
                    /\ reaches(CumW(w, indices, cutoff_idx)) \/ cutoff_idx = n_vocab - 1
                    /\ \E k \in 1 .. (cutoff_idx + 1) : indices[k] = next_token

\* C20 happens: a nucleus of two tokens, the less likely one returned.
C20_Witness ==
    /\ JustSampled
    /\ ~TopPTiny(config.top_p)
    /\ cutoff_idx = 1
    /\ logits[next_token] < MaxOf(logits)

\* The token ids the callback received, in order.
DeliveredTokens == [i \in 1 .. Len(delivered) |-> delivered[i][1]]

\* C21: the token sample_token returns is in [0, n_vocab), and so is every
\* token appended to the sequence after the prompt and every token id the
\* callback received.
C21_SampledInVocab ==
    /\ JustSampled => next_token \in Vocab
    /\ \A k \in (Len(encode(prompt)) + 1) .. Len(tokens) : tokens[k] \in Vocab
    /\ \A k \in DOMAIN delivered : delivered[k][1] \in Vocab

\* C21 happens: two sampled tokens were appended and delivered.
C21_Witness ==
    /\ Len(delivered) = 2
    /\ delivered[1][1] = 0
    /\ delivered[2][1] = 1
    /\ Len(tokens) = Len(prompt) + 2

\* C22: a generation call whose callees return makes at most max_length
\* decode steps and ends in one of Stopped, Cancelled, Exhausted.
C22_Terminates ==
    /\ [](pc # "Idle" => sample_count <= config.max_length)
    /\ (pc # "Idle") ~> (pc \in Terminal)

\* C22 happens: a call ended after max_length = 2 decode steps.
C22_Witness ==
    /\ pc = "Exhausted"
    /\ config.max_length = 2
    /\ sample_count = 2
    /\ cb_count = 2

\* The format the leading bytes of a file name, whatever its length.
MagicFormat(content) ==
    IF StartsWith(content, GgufMagic) THEN "gguf"
    ELSE IF StartsWith(content, OnnxMagic) THEN "onnx"
    ELSE IF StartsWith(content, AmbMagic) THEN "amb"
    ELSE "none"

\* C23: when the leading bytes of the file name a format, detect_format
\* returns that format whatever the extension; the extension decides only
\* when the leading bytes name none.
C23_ContentFirst ==
    (detect.called /\ detect.file.exists)
        => LET magic == MagicFormat(detect.file.content)
           IN  /\ magic # "none" => detect.format = magic
               /\ (magic = "none" /\ ExtensionFormat(detect.path) # "none")
                    => detect.format = ExtensionFormat(detect.path)

\* C24: the token sequence is the encoded prompt followed by the tokens
\* emitted so far; during a callback invocation its last element is the
\* callback's token; the scores handed to sample_token were adjusted with the
\* encoded prompt followed by the tokens emitted before that step as history.
C24_AppendOnly ==
    /\ (pc # "Idle" /\ pc # "Callback")
         => tokens = encode(prompt) \o DeliveredTokens
    /\ pc = "Callback"
         => tokens = (encode(prompt) \o DeliveredTokens) \o <<next_token>>
    /\ JustSampled
         => logits = AdjustLogits(last_logits_, encode(prompt) \o DeliveredTokens, config)

\* C24 happens: the second callback invocation of a call whose prompt is the
\* byte 255.
C24_Witness ==
    /\ pc = "Callback"
    /\ prompt = <<255>>
    /\ Len(delivered) = 1
    /\ tokens = <<CharToToken(255), delivered[1][1], next_token>>
    /\ config.repetition_penalty = 2

\* C25: a decode step samples from the score vector of the call's own most
\* recent forward pass.
C25_SamplesOwnScores ==
    (JustSampled /\ fp_trace # <<>>)
        => logits = AdjustLogits(fp_trace[Len(fp_trace)], tokens, config)

\* C26: a token id that occurs k >= 1 times in the history has had the rule
\* applied k times in succession, the last application testing the sign of
\* the value the k - 1 earlier ones left.
C26_PenaltyPerOccurrence ==
    (JustSampled /\ config.repetition_penalty # 1)
        => \A i \in Vocab :
             LET k == Occurrences(tokens, i)
                 x == PenalizedTimes(ApplyTemperature(last_logits_, config.temperature)[i],
                                     config.repetition_penalty, k - 1)
             IN  k >= 1 => logits[i] = IF x > 0
                                       THEN Div(x, config.repetition_penalty)
                                       ELSE x * config.repetition_penalty

\* C26 happens: a token id with a positive score occurs twice in the history
\* of a call with temperature 2.0 and penalty 2.0.
C26_Witness ==
    /\ JustSampled
    /\ config.repetition_penalty = 2
    /\ config.temperature = 2
    /\ \E i \in Vocab : Occurrences(tokens, i) = 2 /\ last_logits_[i] > 0


=============================================================================
